---- MODULE Spec2Model ----
(***************************************************************************)
(* UniProt feature lookup (shiny_uniport_checker.py).                      *)
(*                                                                         *)
(* Python strings are modelled as sequences of characters, a character     *)
(* being a one-element TLA+ string ("U+2265" stands for the one character  *)
(* U+2265).  Python dicts are modelled as records; dict.get(k, default) is *)
(* Get, and the empty dict is the empty function.                          *)
(*                                                                         *)
(* The module is used in one of two ways, chosen in Init: as the Shiny app *)
(* (fetch_features and the three outputs) or as a library whose function   *)
(* get_feature_descriptions is called; the two share no state.  The JSON   *)
(* body served for the accession is fixed in Init, the status of each      *)
(* request is chosen at the request.  fetch_features is split at its one   *)
(* blocking call, requests.get: Run is the handler up to that call, Fetch  *)
(* the rest.  feature_data.set invalidates the rendered output.            *)
(***************************************************************************)
EXTENDS Integers, Sequences, FiniteSets, TLC

\* ---------------------------------------------------------------- bounds
MaxFeatures == 2
MaxPos == 3

\* ------------------------------------------------------- string literals
Str_chain == <<"c","h","a","i","n">>
Str_Unknown == <<"U","n","k","n","o","w","n">>
Str_CommaSpace == <<","," ">>
Str_SpaceParen == <<" ","(">>
Str_CloseParen == <<")">>
Str_Dash == <<"-">>
Str_Ellipsis == <<".",".",".">>
Str_FailedToFetch == <<"F","a","i","l","e","d"," ","t","o"," ","f","e","t","c","h"," ","U","n","i","P","r","o","t"," ","e","n","t","r","y",":"," ">>
Str_StatusOpen == <<" ","(","S","t","a","t","u","s",":"," ">>
Str_PleaseEnter == <<"P","l","e","a","s","e"," ","e","n","t","e","r"," ","a"," ","U","n","i","P","r","o","t"," ","I","D",".">>
Str_EndBeforeStart == <<"E","n","d"," ","p","o","s","i","t","i","o","n"," ","m","u","s","t"," ","b","e"," ","U+2265"," ","s","t","a","r","t"," ","p","o","s","i","t","i","o","n",".">>
Str_IntOfNone == <<"i","n","t","(",")"," ","a","r","g","u","m","e","n","t"," ","m","u","s","t"," ","b","e"," ","a"," ","s","t","r","i","n","g",","," ","a"," ","b","y","t","e","s","-","l","i","k","e"," ","o","b","j","e","c","t"," ","o","r"," ","a"," ","r","e","a","l"," ","n","u","m","b","e","r",","," ","n","o","t"," ","'","N","o","n","e","T","y","p","e","'">>
Str_ClickToBegin == <<"C","l","i","c","k"," ","'","L","o","o","k","u","p"," ","F","e","a","t","u","r","e","s","'"," ","t","o"," ","b","e","g","i","n",".",".",".">>
Str_ErrorPrefix == <<"E","r","r","o","r",":"," ">>
Str_NoFeaturesRegion == <<"N","o"," ","f","e","a","t","u","r","e","s"," ","f","o","u","n","d"," ","o","v","e","r","l","a","p","p","i","n","g"," ","r","e","g","i","o","n"," ">>
Str_In == <<" ","i","n"," ">>
Str_ConnectionError == <<"C","o","n","n","e","c","t","i","o","n"," ","e","r","r","o","r">>
Str_Empty == << >>

\* ------------------------------------------------------ Python built-ins
EmptyDict == << >>

\* dict.get(k, def)
Get(d, k, def) == IF k \in DOMAIN d THEN d[k] ELSE def

Whitespace == {" ", "\t", "\n"}

UpperCase == <<"A","B","C","D","E","F","G","H","I","J","K","L","M","N","O","P","Q","R","S","T","U","V","W","X","Y","Z">>
LowerCase == <<"a","b","c","d","e","f","g","h","i","j","k","l","m","n","o","p","q","r","s","t","u","v","w","x","y","z">>

lower_char(c) ==
    IF \E i \in 1..26 : UpperCase[i] = c
    THEN LowerCase[CHOOSE i \in 1..26 : UpperCase[i] = c]
    ELSE c

\* str.lower()
lower(s) == [i \in 1..Len(s) |-> lower_char(s[i])]

\* str.strip()
strip(s) ==
    LET keep == {i \in 1..Len(s) : s[i] \notin Whitespace}
    IN  IF keep = {} THEN Str_Empty
        ELSE LET lo == CHOOSE i \in keep : \A j \in keep : i <= j
                 hi == CHOOSE i \in keep : \A j \in keep : j <= i
             IN  SubSeq(s, lo, hi)

Digits == <<"0","1","2","3","4","5","6","7","8","9">>

RECURSIVE NatToStr(_)
NatToStr(n) ==
    IF n < 10 THEN <<Digits[n + 1]>>
    ELSE NatToStr(n \div 10) \o <<Digits[(n % 10) + 1]>>

\* str(n) / f"{n}" for an int
IntToStr(n) == IF n < 0 THEN Str_Dash \o NatToStr(0 - n) ELSE NatToStr(n)

RECURSIVE Join(_, _)
\* sep.join(parts)
Join(parts, sep) ==
    IF Len(parts) = 0 THEN Str_Empty
    ELSE IF Len(parts) = 1 THEN parts[1]
    ELSE parts[1] \o sep \o Join(Tail(parts), sep)

RECURSIVE Split(_, _)
\* s.split(c) for a one-character separator c
Split(s, c) ==
    IF \A i \in 1..Len(s) : s[i] # c THEN <<s>>
    ELSE LET k == CHOOSE i \in 1..Len(s) : s[i] = c /\ \A j \in 1..(i - 1) : s[j] # c
         IN  <<SubSeq(s, 1, k - 1)>> \o Split(SubSeq(s, k + 1, Len(s)), c)

IsDigit(c) == \E i \in 1..10 : Digits[i] = c
DigitVal(c) == (CHOOSE i \in 1..10 : Digits[i] = c) - 1

RECURSIVE DigitsToNat(_)
DigitsToNat(s) ==
    IF Len(s) = 0 THEN 0
    ELSE 10 * DigitsToNat(SubSeq(s, 1, Len(s) - 1)) + DigitVal(s[Len(s)])

\* int(s) for a str: raises ValueError unless s is a non-empty digit string
IntParses(s) == Len(s) > 0 /\ \A i \in 1..Len(s) : IsDigit(s[i])
ParseInt(s) == DigitsToNat(s)

\* "x in list"
Contains(list, x) == \E i \in 1..Len(list) : list[i] = x

\* ------------------------------------------------- core: feature retrieval
\* variant: only server errors count as failures
r_ok_below_500(r) == r.status_code < 500

\* r.ok of the HTTP response
r_ok(r) == r.status_code < 400

\* the ValueError raised when the entry cannot be fetched
fetch_error_message(uniprot_id, r) ==
    Str_FailedToFetch \o uniprot_id \o Str_StatusOpen \o IntToStr(r.status_code) \o Str_CloseParen

\* ftype = feature.get("type", "").strip()
feature_type(feature) == strip(Get(feature, "type", Str_Empty))

\* variant: compares without lower()
is_chain_case_sensitive(ftype) == ftype = Str_chain

\* ftype.lower() == "chain"
is_chain(ftype) == lower(ftype) = Str_chain

\* variant: default 0 in place of -1
coordinate_default_zero(loc, key) == Get(Get(loc, key, EmptyDict), "value", 0)

\* int(loc.get(key, {}).get("value", -1))
coordinate(loc, key) == Get(Get(loc, key, EmptyDict), "value", -1)

\* variant: touching end points do not count
overlaps_exclusive(fstart, fend, start, end) == ~(fend <= start \/ fstart >= end)

\* not (fend < start or fstart > end)
overlaps(fstart, fend, start, end) == ~(fend < start \/ fstart > end)

\* label = desc or ftype
label_of(desc, ftype) == IF Len(desc) > 0 THEN desc ELSE ftype

\* formatted = f"{label} ({ftype})"
format_label(desc, ftype) ==
    label_of(desc, ftype) \o Str_SpaceParen \o ftype \o Str_CloseParen

\* variant: appends without the membership test
append_always(descriptions, formatted) == Append(descriptions, formatted)

\* if formatted not in descriptions: descriptions.append(formatted)
append_unique(descriptions, formatted) ==
    IF ~Contains(descriptions, formatted) THEN Append(descriptions, formatted)
    ELSE descriptions

RECURSIVE descriptions_loop(_, _, _, _)
\* the loop of get_feature_descriptions over data["features"]
descriptions_loop(features, start, end, descriptions) ==
    IF Len(features) = 0 THEN descriptions
    ELSE LET feature == Head(features)
             ftype == feature_type(feature)
             loc == Get(feature, "location", EmptyDict)
             fstart == coordinate(loc, "start")
             fend == coordinate(loc, "end")
             desc == strip(Get(feature, "description", Str_Empty))
         IN  IF is_chain(ftype)
             THEN descriptions_loop(Tail(features), start, end, descriptions)
             ELSE IF overlaps(fstart, fend, start, end)
             THEN descriptions_loop(Tail(features), start, end,
                                    append_unique(descriptions, format_label(desc, ftype)))
             ELSE descriptions_loop(Tail(features), start, end, descriptions)

\* the local list "descriptions" of get_feature_descriptions at its return
feature_descriptions(data, start, end) ==
    descriptions_loop(Get(data, "features", << >>), start, end, << >>)

\* return ", ".join(descriptions) if descriptions else "Unknown"
descriptions_text(descriptions) ==
    IF Len(descriptions) > 0 THEN Join(descriptions, Str_CommaSpace) ELSE Str_Unknown

\* the value returned by get_feature_descriptions for a response with r.ok
get_feature_descriptions(data, start, end) ==
    descriptions_text(feature_descriptions(data, start, end))

\* feature_dict of get_features_detailed
feature_dict(feature) ==
    LET loc == Get(feature, "location", EmptyDict)
    IN  [type |-> feature_type(feature),
         description |-> strip(Get(feature, "description", Str_Empty)),
         start |-> coordinate(loc, "start"),
         end |-> coordinate(loc, "end")]

RECURSIVE detailed_loop(_, _, _, _)
\* the loop of get_features_detailed; acc holds the two lists it appends to
detailed_loop(features, start, end, acc) ==
    IF Len(features) = 0 THEN acc
    ELSE LET feature == Head(features)
             fd == feature_dict(feature)
         IN  IF is_chain(fd.type)
             THEN detailed_loop(Tail(features), start, end, acc)
             ELSE detailed_loop(Tail(features), start, end,
                    [all_features |-> Append(acc.all_features, fd),
                     overlapping_features |->
                        IF overlaps(fd.start, fd.end, start, end)
                        THEN Append(acc.overlapping_features, fd)
                        ELSE acc.overlapping_features])

\* protein_length = data.get("sequence", {}).get("length", 0)
protein_length_of(data) == Get(Get(data, "sequence", EmptyDict), "length", 0)

\* the nested lookup of the protein name, "Unknown" when a segment is absent
protein_name_of(data) ==
    Get(Get(Get(Get(data, "proteinDescription", EmptyDict),
                "recommendedName", EmptyDict),
            "fullName", EmptyDict),
        "value", Str_Unknown)

\* region = f"{start}-{end}"
region_of(start, end) == IntToStr(start) \o Str_Dash \o IntToStr(end)

\* variant: the dict is returned before all_features is filled in
get_features_detailed_partial(uniprot_id, start, end, data) ==
    LET lists == detailed_loop(Get(data, "features", << >>), start, end,
                               [all_features |-> << >>, overlapping_features |-> << >>])
    IN  [uniprot_id |-> uniprot_id,
         protein_name |-> protein_name_of(data),
         protein_length |-> protein_length_of(data),
         region |-> region_of(start, end),
         features |-> lists.overlapping_features]

\* the dict returned by get_features_detailed for a response with r.ok
get_features_detailed(uniprot_id, start, end, data) ==
    LET lists == detailed_loop(Get(data, "features", << >>), start, end,
                               [all_features |-> << >>, overlapping_features |-> << >>])
    IN  [uniprot_id |-> uniprot_id,
         protein_name |-> protein_name_of(data),
         protein_length |-> protein_length_of(data),
         region |-> region_of(start, end),
         features |-> lists.overlapping_features,
         all_features |-> lists.all_features]

\* ------------------------------------------------------------ Shiny app
\* Python None (also the initial value of feature_data)
None == [none |-> TRUE]
IsNone(x) == "none" \in DOMAIN x

\* a number typed into a numeric input
Num(n) == [value |-> n]

Str_EmDash == <<"U+2014">>

RECURSIVE result_loop(_, _)
\* the loop of result() over data["features"]
result_loop(features, descriptions) ==
    IF Len(features) = 0 THEN descriptions
    ELSE LET f == Head(features)
         IN  result_loop(Tail(features),
                         append_unique(descriptions, format_label(f.description, f.type)))

\* variant: the placeholder of get_feature_descriptions
no_features_text_unknown(data) == Str_Unknown

\* the text result() returns when data["features"] is empty
no_features_text(data) ==
    Str_NoFeaturesRegion \o data.region \o Str_In \o data.uniprot_id

\* the render.text output "result"
result(data) ==
    IF IsNone(data) THEN [kind |-> "result", descriptions |-> << >>, text |-> Str_ClickToBegin]
    ELSE IF "error" \in DOMAIN data
    THEN [kind |-> "result", descriptions |-> << >>, text |-> Str_ErrorPrefix \o data.error]
    ELSE IF Len(data.features) = 0
    THEN [kind |-> "result", descriptions |-> << >>, text |-> no_features_text(data)]
    ELSE LET descriptions == result_loop(data.features, << >>)
         IN  [kind |-> "result", descriptions |-> descriptions,
              text |-> Join(descriptions, Str_CommaSpace)]

\* one table row of details()
details_row(f) ==
    <<f.type,
      IF Len(f.description) > 0 THEN f.description ELSE Str_EmDash,
      IntToStr(f.start) \o Str_Dash \o IntToStr(f.end)>>

\* the render.ui output "details"
details(data) ==
    IF IsNone(data) THEN [kind |-> "details", state |-> "no data", rows |-> << >>]
    ELSE IF "error" \in DOMAIN data
    THEN [kind |-> "details", state |-> "error", rows |-> << >>, text |-> Str_ErrorPrefix \o data.error]
    ELSE IF Len(data.features) = 0
    THEN [kind |-> "details", state |-> "no features", rows |-> << >>]
    ELSE [kind |-> "details", state |-> "table",
          rows |-> [i \in 1..Len(data.features) |-> details_row(data.features[i])]]

RECURSIVE insert_by_start(_, _)
insert_by_start(sorted, f) ==
    IF Len(sorted) = 0 THEN <<f>>
    ELSE IF f.start < Head(sorted).start THEN <<f>> \o sorted
    ELSE <<Head(sorted)>> \o insert_by_start(Tail(sorted), f)

RECURSIVE sorted_by_start(_)
\* sorted(features_to_plot, key=lambda x: x["start"]), a stable sort
sorted_by_start(features) ==
    IF Len(features) = 0 THEN << >>
    ELSE insert_by_start(sorted_by_start(SubSeq(features, 1, Len(features) - 1)),
                         features[Len(features)])

\* variant: a budget of 34 characters
truncate_label_34(label) ==
    IF Len(label) > 34 THEN SubSeq(label, 1, 31) \o Str_Ellipsis ELSE label

\* if len(label) > 35: label = label[:32] + "..."
truncate_label(label) ==
    IF Len(label) > 35 THEN SubSeq(label, 1, 32) \o Str_Ellipsis ELSE label

\* the y tick label of one feature
track_label(feature) ==
    truncate_label(IF Len(feature.description) > 0 THEN feature.description ELSE feature.type)
        \o Str_SpaceParen \o IntToStr(feature.start) \o Str_Dash \o IntToStr(feature.end)
        \o Str_CloseParen

\* max_pos = data.get("protein_length", 1000) in full mode
full_max_pos(data) == Get(data, "protein_length", 1000)

\* region_parts = data["region"].split("-"); int() of parts 0 and 1 succeeds
region_parses(data) ==
    LET region_parts == Split(data.region, Str_Dash[1])
    IN  IntParses(region_parts[1]) /\ IntParses(region_parts[2])

query_start_of(data) == ParseInt(Split(data.region, Str_Dash[1])[1])
query_end_of(data) == ParseInt(Split(data.region, Str_Dash[1])[2])

\* int((query_end - query_start) * 0.2), which truncates towards zero
padding_of(query_start, query_end) ==
    LET d == query_end - query_start
    IN  IF d >= 0 THEN d \div 5 ELSE 0 - ((0 - d) \div 5)

\* the x-axis limits <<min_pos, max_pos>>
axis_limits(data, plot_mode) ==
    IF plot_mode = "full" THEN <<0, full_max_pos(data)>>
    ELSE LET padding == padding_of(query_start_of(data), query_end_of(data))
             lo == query_start_of(data) - padding
         IN  <<IF lo > 0 THEN lo ELSE 0, query_end_of(data) + padding>>

\* the render.ui output "plot"
plot(data, plot_mode) ==
    IF IsNone(data) THEN [kind |-> "plot", state |-> "no data", mode |-> plot_mode]
    ELSE IF "error" \in DOMAIN data
    THEN [kind |-> "plot", state |-> "error", mode |-> plot_mode,
          text |-> Str_ErrorPrefix \o data.error]
    ELSE LET features_to_plot ==
                 IF plot_mode = "full" THEN Get(data, "all_features", << >>)
                 ELSE data.features
         IN  IF Len(features_to_plot) = 0
             THEN [kind |-> "plot", state |-> "no features", mode |-> plot_mode]
             ELSE IF ~region_parses(data)
             THEN [kind |-> "plot", state |-> "ValueError", mode |-> plot_mode]
             ELSE LET ordered == sorted_by_start(features_to_plot)
                  IN  [kind |-> "plot", state |-> "figure", mode |-> plot_mode,
                       min_pos |-> axis_limits(data, plot_mode)[1],
                       max_pos |-> axis_limits(data, plot_mode)[2],
                       tracks |-> ordered,
                       labels |-> [i \in 1..Len(ordered) |-> track_label(ordered[i])],
                       highlight |-> <<query_start_of(data), query_end_of(data)>>]

\* ------------------------------------------------- inputs of the model
RECURSIVE Rep(_, _)
Rep(c, n) == IF n = 0 THEN << >> ELSE <<c>> \o Rep(c, n - 1)

RECURSIVE SeqsUpTo(_, _)
SeqsUpTo(S, n) ==
    IF n = 0 THEN {<< >>}
    ELSE LET shorter == SeqsUpTo(S, n - 1)
         IN  shorter \cup {Append(q, x) : q \in {r \in shorter : Len(r) = n - 1}, x \in S}

Coords == 1..MaxPos
StartOpts == {EmptyDict} \cup {[start |-> [value |-> v]] : v \in Coords}
EndOpts == {EmptyDict} \cup {[end |-> [value |-> v]] : v \in Coords}
Span(s, e) == [location |-> [start |-> [value |-> s], end |-> [value |-> e]]]

Txt_Domain == <<"D","o","m","a","i","n">>
Txt_Kinase == <<"K","i","n","a","s","e">>
Txt_Site == <<"S","i","t","e">>
Txt_Region == <<"R","e","g","i","o","n">>
Txt_P1 == <<"P","1">>

F_Domain == [type |-> Txt_Domain, description |-> Txt_Kinase] @@ Span(2, 2)
F_Site1 == [type |-> Txt_Site, description |-> <<" ","B","i","n","d","i","n","g"," ","s","i","t","e">>] @@ Span(1, 2)
F_Site2 == [type |-> <<"S","i","t","e"," ">>, description |-> <<"B","i","n","d","i","n","g"," ","s","i","t","e"," ">>] @@ Span(2, MaxPos)

\* raw feature entries that differ in type, description and span
LabelFeatures ==
    { [type |-> <<"C","h","a","i","n">>, description |-> Str_Empty] @@ Span(1, MaxPos),
      F_Site1,
      [type |-> Txt_Site] @@ Span(MaxPos, MaxPos) }

\* raw feature entries whose type is "chain" in some case, or close to it
ChainFeatures ==
    { [type |-> <<" ","C","H","A","I","N"," ">>, description |-> Txt_Kinase] @@ Span(1, 1),
      [type |-> Str_chain] @@ Span(2, 2),
      [type |-> <<"c","H","a","I","n">>, description |-> Txt_Kinase, location |-> EmptyDict],
      [type |-> <<"C","h","a","i","n","s">>] @@ Span(2, 2),
      EmptyDict }

\* raw feature entries of one type with every present, absent and reversed span
SpanFeatures ==
    { [type |-> Txt_Domain, description |-> Txt_Kinase, location |-> s @@ e] :
        s \in StartOpts, e \in EndOpts }

\* raw feature entries whose label is around the truncation length
LongFeatures ==
    { [type |-> Txt_Region, description |-> Rep("x", n)] @@ Span(1, MaxPos) : n \in 33..37 }
    \cup { [type |-> Rep("y", n)] @@ Span(2, 2) : n \in {35, 36} }

Metas ==
    { EmptyDict,
      [sequence |-> EmptyDict, proteinDescription |-> EmptyDict],
      [sequence |-> [length |-> MaxPos + 2]],
      [sequence |-> [length |-> MaxPos + 2],
       proteinDescription |-> [recommendedName |-> [fullName |-> [value |-> Txt_Kinase]]]] }

\* feature lists in which two entries format to the same label
DedupLists ==
    { <<F_Site1, F_Site2>>, <<F_Site2, F_Site1>>,
      <<F_Site1, F_Domain, F_Site2>>, <<F_Site1, F_Site2, F_Domain>>,
      <<F_Domain, F_Site2, F_Site1>>, <<F_Site2, F_Site1, F_Site2>>,
      <<F_Domain, F_Domain, F_Domain>> }

\* the JSON bodies the UniProt endpoint may hold
Documents ==
    { [features |-> fs] : fs \in SeqsUpTo(LabelFeatures, MaxFeatures) }
    \cup { [features |-> fs] : fs \in DedupLists }
    \cup { [features |-> <<f>>] : f \in SpanFeatures \cup LongFeatures }
    \cup { [features |-> fs] : fs \in UNION { {<<c, F_Domain>>, <<F_Domain, c>>} : c \in ChainFeatures } }
    \cup { m @@ [features |-> fs] : m \in Metas, fs \in { << >>, <<F_Domain>> } }
    \cup { EmptyDict }

StatusCodes == {200, 404, 500}

\* outcomes of requests.get: a response, or an exception of the transport
Responses == { [status_code |-> c] : c \in StatusCodes } \cup { [exception |-> Str_ConnectionError] }

PosVals == {0 - 1} \cup (1..MaxPos)
StartInputs == {None} \cup { Num(n) : n \in 1..MaxPos }
EndInputs == { Num(n) : n \in 1..MaxPos }
TextInputs == { <<" "," ">>, <<" ","P","1"," ">> }
PlotModes == {"region", "full"}

\* ----------------------------------------------------------------- state
VARIABLES
    entry,          \* "app": run_app(app); "library": get_feature_descriptions is called
    document,       \* the JSON body served for the accession
    pc,             \* "idle", or "fetching": fetch_features is inside requests.get
    lookup,         \* inputs and bookkeeping of the current (or last) lookup
    feature_data,   \* the reactive.Value
    view,           \* the output rendered last, invalidated by feature_data.set
    ret             \* outcome of the last call of get_feature_descriptions

vars == <<entry, document, pc, lookup, feature_data, view, ret>>

Invalidated == [kind |-> "invalidated"]
NoLookup == [kind |-> "none", fetches |-> 0, sets |-> 0]
NoCall == [kind |-> "none"]

Init ==
    /\ entry \in {"app", "library"}
    /\ document \in Documents
    /\ pc = "idle"
    /\ lookup = NoLookup
    /\ feature_data = None
    /\ view = Invalidated
    /\ ret = NoCall

\* --------------------------------------------------------------- actions
\* variant: off by one
end_before_start_lenient(start, end) == end + 1 < start

\* if end < start
end_before_start(start, end) == end < start

\* feature_data.set({"error": message})
error_value(message) == [error |-> message]

\* fetch_features, from the click on "run" up to the call of requests.get:
\* int() of the two numeric inputs, strip of the accession, the two checks
Run(uid_in, start_pos, end_pos) ==
    /\ entry = "app"
    /\ pc = "idle"
    /\ LET begun == [kind |-> "lookup", uniprot_id_in |-> uid_in,
                     start_pos |-> start_pos, end_pos |-> end_pos,
                     response |-> None,
                     fetches |-> 0, sets |-> 0]
           failed(message) ==
               /\ feature_data' = error_value(message)
               /\ view' = Invalidated
               /\ lookup' = [begun EXCEPT !.sets = 1]
               /\ pc' = "idle"
       IN  IF IsNone(start_pos) \/ IsNone(end_pos)
           THEN failed(Str_IntOfNone)
           ELSE IF Len(strip(uid_in)) = 0
           THEN failed(Str_PleaseEnter)
           ELSE IF end_before_start(start_pos.value, end_pos.value)
           THEN failed(Str_EndBeforeStart)
           ELSE /\ pc' = "fetching"
                /\ lookup' = begun
                /\ UNCHANGED <<feature_data, view>>
    /\ UNCHANGED <<entry, document, ret>>

\* fetch_features, from the return of requests.get inside
\* get_features_detailed to the end of the handler
Fetch(r) ==
    /\ entry = "app"
    /\ pc = "fetching"
    /\ LET uniprot_id == strip(lookup.uniprot_id_in)
           start == lookup.start_pos.value
           end == lookup.end_pos.value
       IN  feature_data' =
               IF "exception" \in DOMAIN r THEN error_value(r.exception)
               ELSE IF ~r_ok(r) THEN error_value(fetch_error_message(uniprot_id, r))
               ELSE get_features_detailed(uniprot_id, start, end, document)
    /\ view' = Invalidated
    /\ lookup' = [lookup EXCEPT !.response = r, !.fetches = @ + 1, !.sets = @ + 1]
    /\ pc' = "idle"
    /\ UNCHANGED <<entry, document, ret>>

\* the three outputs read feature_data.get() and render it
RenderResult ==
    /\ entry = "app"
    /\ view' = result(feature_data)
    /\ view' # view
    /\ UNCHANGED <<entry, document, pc, lookup, feature_data, ret>>

RenderDetails ==
    /\ entry = "app"
    /\ view' = details(feature_data)
    /\ view' # view
    /\ UNCHANGED <<entry, document, pc, lookup, feature_data, ret>>

RenderPlot(plot_mode) ==
    /\ entry = "app"
    /\ view' = plot(feature_data, plot_mode)
    /\ view' # view
    /\ UNCHANGED <<entry, document, pc, lookup, feature_data, ret>>

\* one call of get_feature_descriptions(uniprot_id, start, end)
CallGetFeatureDescriptions(uniprot_id, start, end, r) ==
    /\ entry = "library"
    /\ ret' =
          IF "exception" \in DOMAIN r
          THEN [kind |-> "raised", uniprot_id |-> uniprot_id, start |-> start, end |-> end,
                response |-> r, message |-> r.exception]
          ELSE IF ~r_ok(r)
          THEN [kind |-> "raised", uniprot_id |-> uniprot_id, start |-> start, end |-> end,
                response |-> r, message |-> fetch_error_message(uniprot_id, r)]
          ELSE [kind |-> "returned", uniprot_id |-> uniprot_id, start |-> start, end |-> end,
                response |-> r,
                descriptions |-> feature_descriptions(document, start, end),
                text |-> get_feature_descriptions(document, start, end)]
    /\ ret' # ret
    /\ UNCHANGED <<entry, document, pc, lookup, feature_data, view>>

Next ==
    \/ \E uid_in \in TextInputs, start_pos \in StartInputs, end_pos \in EndInputs :
          Run(uid_in, start_pos, end_pos)
    \/ \E r \in Responses : Fetch(r)
    \/ RenderResult
    \/ RenderDetails
    \/ \E plot_mode \in PlotModes : RenderPlot(plot_mode)
    \/ \E uniprot_id \in {Txt_P1}, start \in PosVals, end \in PosVals, r \in Responses :
          CallGetFeatureDescriptions(uniprot_id, start, end, r)

Spec == Init /\ [][Next]_vars

\* ------------------------------------------------------------ properties
\* The raw entries of the served document and their reading by the
\* specification: trimmed strings, -1 for an absent coordinate.
RawFeatures == Get(document, "features", << >>)

HasCoord(f, key) ==
    /\ "location" \in DOMAIN f
    /\ key \in DOMAIN f.location
    /\ "value" \in DOMAIN f.location[key]

SpecCoord(f, key) == IF HasCoord(f, key) THEN f.location[key].value ELSE 0 - 1

IsChainWord(ty) ==
    /\ Len(ty) = 5
    /\ ty[1] \in {"c", "C"}
    /\ ty[2] \in {"h", "H"}
    /\ ty[3] \in {"a", "A"}
    /\ ty[4] \in {"i", "I"}
    /\ ty[5] \in {"n", "N"}

ChainTyped(f) == IsChainWord(strip(Get(f, "type", Str_Empty)))

SpecCanon(f) ==
    [type |-> strip(Get(f, "type", Str_Empty)),
     description |-> strip(Get(f, "description", Str_Empty)),
     start |-> SpecCoord(f, "start"),
     end |-> SpecCoord(f, "end")]

NonChainRaw == SelectSeq(RawFeatures, LAMBDA f : ~ChainTyped(f))
Canonical == [i \in 1..Len(NonChainRaw) |-> SpecCanon(NonChainRaw[i])]

SpecOverlap(c, qs, qe) == c.end >= qs /\ c.start <= qe

SpecLabel(c) ==
    (IF c.description # Str_Empty THEN c.description ELSE c.type)
        \o <<" ", "(">> \o c.type \o <<")">>

LabelsOf(features) == [i \in 1..Len(features) |-> SpecLabel(features[i])]

\* the last lookup of the app went through the fetch with status 200
LookupSucceeded ==
    /\ entry = "app"
    /\ pc = "idle"
    /\ lookup.kind = "lookup"
    /\ "status_code" \in DOMAIN lookup.response
    /\ lookup.response.status_code = 200

QS == lookup.start_pos.value
QE == lookup.end_pos.value

\* the last library call returned a text
CallReturned == entry = "library" /\ ret.kind = "returned"

\* C1: for 1 <= qs <= qe, a non-chain feature is in the overlapping set of
\* get_features_detailed, and contributes its label in
\* get_feature_descriptions, iff fe >= qs and fs <= qe.
C1_OverlapIff ==
    /\ (LookupSucceeded /\ QS >= 1) =>
          \A i \in DOMAIN Canonical :
              Contains(feature_data.features, Canonical[i]) <=> SpecOverlap(Canonical[i], QS, QE)
    /\ (CallReturned /\ 1 <= ret.start /\ ret.start <= ret.end) =>
          /\ \A i \in DOMAIN Canonical :
                SpecOverlap(Canonical[i], ret.start, ret.end)
                    => Contains(ret.descriptions, SpecLabel(Canonical[i]))
          /\ \A k \in DOMAIN ret.descriptions :
                \E i \in DOMAIN Canonical :
                    /\ SpecOverlap(Canonical[i], ret.start, ret.end)
                    /\ SpecLabel(Canonical[i]) = ret.descriptions[k]

C1_Witness ==
    /\ LookupSucceeded
    /\ QS >= 1
    /\ Len(feature_data.features) > 0
    /\ Len(feature_data.features) < Len(feature_data.all_features)

BothNumeric == ~IsNone(lookup.start_pos) /\ ~IsNone(lookup.end_pos)

EmptyAccession == Len(strip(lookup.uniprot_id_in)) = 0

InvalidInputs ==
    /\ lookup.kind = "lookup"
    /\ \/ EmptyAccession
       \/ BothNumeric /\ QE < QS

\* C2: a lookup with an empty (trimmed) accession or with end < start never
\* invokes the fetch and ends with a validation error as the latest result;
\* the fetch step is reached only after both checks have passed.
C2_NoFetchBeforeValidation ==
    /\ InvalidInputs =>
          /\ pc = "idle"
          /\ lookup.fetches = 0
          /\ IsNone(lookup.response)
          /\ DOMAIN feature_data = {"error"}
          /\ BothNumeric =>
                feature_data.error =
                    IF EmptyAccession THEN Str_PleaseEnter ELSE Str_EndBeforeStart
    /\ (pc = "fetching" \/ lookup.fetches > 0) =>
          /\ BothNumeric
          /\ ~EmptyAccession
          /\ QE >= QS

C2_Witness ==
    /\ lookup.kind = "lookup"
    /\ BothNumeric
    /\ ~EmptyAccession
    /\ QE < QS
    /\ pc = "idle"
    /\ feature_data = [error |-> Str_EndBeforeStart]

HasSubstring(s, sub) ==
    \E i \in 1..(Len(s) - Len(sub) + 1) : SubSeq(s, i, i + Len(sub) - 1) = sub

StatusText(code) ==
    CASE code = 404 -> <<"4", "0", "4">>
      [] code = 500 -> <<"5", "0", "0">>
      [] OTHER -> <<"2", "0", "0">>

\* the last lookup passed validation and its fetch returned a non-success status
FetchRejected ==
    /\ entry = "app"
    /\ pc = "idle"
    /\ lookup.kind = "lookup"
    /\ "status_code" \in DOMAIN lookup.response
    /\ lookup.response.status_code # 200

\* C3: when the most recent lookup passed validation and its fetch returned
\* a non-success status, the stored result is an error value and nothing
\* else, and its text carries the accession and the status.
C3_FetchFailureIsError ==
    FetchRejected =>
        /\ DOMAIN feature_data = {"error"}
        /\ HasSubstring(feature_data.error, strip(lookup.uniprot_id_in))
        /\ HasSubstring(feature_data.error, StatusText(lookup.response.status_code))

C3_Witness ==
    /\ FetchRejected
    /\ lookup.response.status_code = 404
    /\ view.kind = "result"

CompleteValue(v) ==
    \/ v = None
    \/ DOMAIN v = {"error"}
    \/ DOMAIN v = {"uniprot_id", "protein_name", "protein_length", "region",
                   "features", "all_features"}

\* C4: feature_data is written exactly once per lookup, by the step that
\* ends the lookup; in every state, mid-lookup states included, it holds the
\* initial value, an error value or a result with all six keys.
C4_SingleCompleteWrite ==
    /\ CompleteValue(feature_data)
    /\ pc = "fetching" => lookup.sets = 0
    /\ pc = "idle" => lookup.sets = (IF lookup.kind = "lookup" THEN 1 ELSE 0)

C4_Witness ==
    /\ pc = "fetching"
    /\ "all_features" \in DOMAIN feature_data
    /\ view.kind = "details"

NoOverlapInApp ==
    /\ LookupSucceeded
    /\ \A i \in DOMAIN Canonical : ~SpecOverlap(Canonical[i], QS, QE)

NoOverlapInCall ==
    /\ CallReturned
    /\ \A i \in DOMAIN Canonical : ~SpecOverlap(Canonical[i], ret.start, ret.end)

\* C5 as claimed: after a successful fetch with no overlapping non-chain
\* feature the text is exactly "Unknown", from get_feature_descriptions and
\* in the "result" output alike.
C5_UnknownEverywhere ==
    /\ NoOverlapInCall => ret.text = Str_Unknown
    /\ (NoOverlapInApp /\ view.kind = "result") => view.text = Str_Unknown

\* C5 amended: get_feature_descriptions returns exactly "Unknown"; the
\* "result" output shows "No features found overlapping region
\* {start}-{end} in {accession}".
C5_UnknownInTextOnly ==
    /\ NoOverlapInCall => ret.text = Str_Unknown
    /\ (NoOverlapInApp /\ view.kind = "result") =>
          view.text = Str_NoFeaturesRegion \o IntToStr(QS) \o <<"-">> \o IntToStr(QE)
                          \o <<" ", "i", "n", " ">> \o strip(lookup.uniprot_id_in)

C5_Witness ==
    /\ NoOverlapInApp
    /\ view.kind = "result"
    /\ Len(RawFeatures) > 0

FromNonChainEntry(label) ==
    \E i \in DOMAIN Canonical : SpecLabel(Canonical[i]) = label

\* C6: no entry whose trimmed type is "chain" in any case appears in
\* features, in all_features or among the labels of the text; all_features
\* holds every other entry, in input order.
C6_NoChain ==
    /\ (entry = "app" /\ "features" \in DOMAIN feature_data) =>
          /\ \A i \in DOMAIN feature_data.features :
                ~IsChainWord(feature_data.features[i].type)
          /\ \A i \in DOMAIN feature_data.all_features :
                ~IsChainWord(feature_data.all_features[i].type)
    /\ LookupSucceeded =>
          /\ feature_data.all_features = Canonical
          /\ \A i \in DOMAIN feature_data.features :
                Contains(Canonical, feature_data.features[i])
    /\ (entry = "app" /\ view.kind = "result" /\ "features" \in DOMAIN feature_data) =>
          \A k \in DOMAIN view.descriptions : FromNonChainEntry(view.descriptions[k])
    /\ CallReturned =>
          \A k \in DOMAIN ret.descriptions : FromNonChainEntry(ret.descriptions[k])

C6_Witness ==
    /\ LookupSucceeded
    /\ \E i \in DOMAIN RawFeatures :
          ChainTyped(RawFeatures[i]) /\ Get(RawFeatures[i], "type", Str_Empty) # Str_chain
    /\ Len(feature_data.features) > 0

FirstIndex(list, x) ==
    CHOOSE k \in DOMAIN list : list[k] = x /\ \A j \in 1..(k - 1) : list[j] # x

IsFirstOccurrenceList(out, labels) ==
    /\ \A i, j \in DOMAIN out : i # j => out[i] # out[j]
    /\ {out[i] : i \in DOMAIN out} = {labels[k] : k \in DOMAIN labels}
    /\ \A i, j \in DOMAIN out : i < j => FirstIndex(labels, out[i]) < FirstIndex(labels, out[j])

OverlappingCanonical(qs, qe) == SelectSeq(Canonical, LAMBDA c : SpecOverlap(c, qs, qe))

\* C7: the aggregated label list holds each distinct "{label} ({type})" of
\* the overlapping features exactly once, in the order of first occurrence,
\* and the text is that list joined by ", ".
C7_DedupFirstOccurrence ==
    /\ (entry = "app" /\ view.kind = "result" /\ "features" \in DOMAIN feature_data) =>
          /\ IsFirstOccurrenceList(view.descriptions, LabelsOf(feature_data.features))
          /\ Len(feature_data.features) > 0 => view.text = Join(view.descriptions, <<",", " ">>)
    /\ CallReturned =>
          /\ IsFirstOccurrenceList(ret.descriptions,
                                   LabelsOf(OverlappingCanonical(ret.start, ret.end)))
          /\ Len(ret.descriptions) > 0 => ret.text = Join(ret.descriptions, <<",", " ">>)

C7_Witness ==
    /\ entry = "app"
    /\ view.kind = "result"
    /\ "features" \in DOMAIN feature_data
    /\ Len(view.descriptions) = 2
    /\ Len(feature_data.features) = 3
    /\ SpecLabel(feature_data.features[1]) = SpecLabel(feature_data.features[3])

AbsentCoord(f) == ~HasCoord(f, "start") \/ ~HasCoord(f, "end")

SentinelStored(f, c) ==
    /\ ~HasCoord(f, "start") => c.start = 0 - 1
    /\ ~HasCoord(f, "end") => c.end = 0 - 1

\* C8 as claimed: an entry with an absent start or end gets -1 for it and,
\* for every query with qs >= 1 and qe >= qs, is not in the overlapping set.
C8_AbsentNeverOverlaps ==
    /\ (LookupSucceeded /\ QS >= 1) =>
          \A i \in DOMAIN NonChainRaw :
              /\ SentinelStored(NonChainRaw[i], feature_data.all_features[i])
              /\ AbsentCoord(NonChainRaw[i]) =>
                    ~Contains(feature_data.features, feature_data.all_features[i])
    /\ (CallReturned /\ 1 <= ret.start /\ ret.start <= ret.end) =>
          \A k \in DOMAIN ret.descriptions :
              \E i \in DOMAIN NonChainRaw :
                  /\ ~AbsentCoord(NonChainRaw[i])
                  /\ SpecLabel(Canonical[i]) = ret.descriptions[k]

\* C8 amended: an entry with an absent start or end gets -1 for it; for
\* every query with qs >= 1 and qe >= qs it is not in the overlapping set
\* when its end is absent, and when only its start is absent it is in the
\* overlapping set iff its end >= qs.
C8_AbsentEndNeverOverlaps ==
    /\ (LookupSucceeded /\ QS >= 1) =>
          \A i \in DOMAIN NonChainRaw :
              LET f == NonChainRaw[i]
                  c == feature_data.all_features[i]
              IN  /\ SentinelStored(f, c)
                  /\ ~HasCoord(f, "end") => ~Contains(feature_data.features, c)
                  /\ (~HasCoord(f, "start") /\ HasCoord(f, "end")) =>
                        (Contains(feature_data.features, c) <=> f.location.end.value >= QS)
    /\ (CallReturned /\ 1 <= ret.start /\ ret.start <= ret.end) =>
          /\ \A k \in DOMAIN ret.descriptions :
                \E i \in DOMAIN NonChainRaw :
                    /\ HasCoord(NonChainRaw[i], "end")
                    /\ NonChainRaw[i].location.end.value >= ret.start
                    /\ SpecLabel(Canonical[i]) = ret.descriptions[k]
          /\ \A i \in DOMAIN NonChainRaw :
                (/\ ~HasCoord(NonChainRaw[i], "start")
                 /\ HasCoord(NonChainRaw[i], "end")
                 /\ NonChainRaw[i].location.end.value >= ret.start)
                    => Contains(ret.descriptions, SpecLabel(Canonical[i]))

C8_Witness ==
    /\ LookupSucceeded
    /\ QS >= 1
    /\ \E i \in DOMAIN NonChainRaw :
          /\ ~HasCoord(NonChainRaw[i], "start")
          /\ HasCoord(NonChainRaw[i], "end")
          /\ Contains(feature_data.features, feature_data.all_features[i])

FullFigure ==
    /\ entry = "app"
    /\ view.kind = "plot"
    /\ view.state = "figure"
    /\ view.mode = "full"

LengthKnown ==
    /\ "sequence" \in DOMAIN document
    /\ "length" \in DOMAIN document.sequence
    /\ document.sequence.length > 0

\* C9: in full mode the axis is [0, protein_length] when the length is
\* known and positive, and [0, 1000] when the document has no length; the
\* upper bound is never 0.
C9_FullAxisFallback ==
    FullFigure =>
        /\ view.min_pos = 0
        /\ view.max_pos = (IF LengthKnown THEN document.sequence.length ELSE 1000)
        /\ view.max_pos # 0

TrackText(f) == IF f.description # Str_Empty THEN f.description ELSE f.type

SpanSuffix(f) ==
    <<" ", "(">> \o IntToStr(f.start) \o <<"-">> \o IntToStr(f.end) \o <<")">>

EndsWith(s, suffix) ==
    /\ Len(s) >= Len(suffix)
    /\ SubSeq(s, Len(s) - Len(suffix) + 1, Len(s)) = suffix

\* the label part of the i-th y tick label, its span removed
ShownLabel(i) ==
    SubSeq(view.labels[i], 1, Len(view.labels[i]) - Len(SpanSuffix(view.tracks[i])))

Figure == entry = "app" /\ view.kind = "plot" /\ view.state = "figure"

\* C10 as claimed: the label part is unchanged up to 34 characters and is
\* otherwise cut and ended with "..." to at most 34 characters; the span
\* "(start-end)" is appended in both cases.
C10_Budget34 ==
    Figure =>
        \A i \in DOMAIN view.labels :
            LET text == TrackText(view.tracks[i])
                shown == ShownLabel(i)
            IN  /\ EndsWith(view.labels[i], SpanSuffix(view.tracks[i]))
                /\ Len(text) <= 34 => shown = text
                /\ Len(text) > 34 =>
                      /\ Len(shown) <= 34
                      /\ EndsWith(shown, <<".", ".", ".">>)
                      /\ SubSeq(shown, 1, Len(shown) - 3) = SubSeq(text, 1, Len(shown) - 3)

\* C10 amended: the label part is unchanged up to 35 characters and is
\* otherwise its first 32 characters followed by "...", 35 in all; the span
\* "(start-end)" is appended in both cases.
C10_Budget35 ==
    Figure =>
        \A i \in DOMAIN view.labels :
            LET text == TrackText(view.tracks[i])
                shown == ShownLabel(i)
            IN  /\ EndsWith(view.labels[i], SpanSuffix(view.tracks[i]))
                /\ Len(text) <= 35 => shown = text
                /\ Len(text) > 35 =>
                      /\ shown = SubSeq(text, 1, 32) \o <<".", ".", ".">>
                      /\ Len(shown) = 35

C10_Witness ==
    /\ Figure
    /\ \E i \in DOMAIN view.labels : Len(TrackText(view.tracks[i])) > 35
====
